---- MODULE Spec2Model ----
(***************************************************************************)
(* Model of app.py: the Pooled Cohort Equations risk function              *)
(* ascvd_10y_risk_pce and the Streamlit form handler that calls it.        *)
(*                                                                         *)
(* Floats are modelled as fixed-point integers with SCALE units per 1.0.   *)
(* Numeric inputs are whole numbers (the widgets step by 1.0).  Strings    *)
(* are sequences of one-character strings, so that lower(), strip() and    *)
(* startswith() are computed rather than assumed.                          *)
(***************************************************************************)
EXTENDS Integers, Sequences, FiniteSets, TLC

----------------------------------------------------------------------------
(* Fixed-point arithmetic standing for Python float arithmetic.            *)

SCALE == 10^4

Abs(x) == IF x < 0 THEN -x ELSE x

Max(a, b) == IF b > a THEN b ELSE a

Min(a, b) == IF b < a THEN b ELSE a

\* a * b on non-negative fixed-point operands, split so that no
\* intermediate product leaves 32 bits; truncates toward zero.
MulPos(a, b) ==
    (a \div SCALE) * b + (a % SCALE) * (b \div SCALE)
        + ((a % SCALE) * (b % SCALE)) \div SCALE

\* float product a * b
Mul(a, b) ==
    IF (a < 0) = (b < 0) THEN MulPos(Abs(a), Abs(b))
    ELSE -MulPos(Abs(a), Abs(b))

RECURSIVE ILog2(_)
ILog2(x) == IF x < 2 THEN 0 ELSE 1 + ILog2(x \div 2)

\* floor(r * 10^k / b) + q * 10^k by long division, for 0 <= r < b
RECURSIVE LongDiv(_, _, _, _)
LongDiv(r, b, k, q) ==
    IF k = 0 THEN q
    ELSE LongDiv((r * 10) % b, b, k - 1, q * 10 + (r * 10) \div b)

\* ln(2) in units of 10^-6 and in fixed point
LN2_MICRO == 693147
LN2 == LN2_MICRO \div 100

\* natural logarithm of a whole number x >= 1, in fixed point:
\* x = m * 2^n, ln x = n ln 2 + 2 atanh((m-1)/(m+1))
Ln(x) ==
    LET n == ILog2(x)
        p == 2^n
        Z == 10 * SCALE
        z == LongDiv(x - p, x + p, 5, 0)
        z2 == (z * z) \div Z
        z3 == (z * z2) \div Z
        z5 == (z3 * z2) \div Z
        z7 == (z5 * z2) \div Z
        z9 == (z7 * z2) \div Z
        s == z + z3 \div 3 + z5 \div 5 + z7 \div 7 + z9 \div 9
    IN (n * LN2_MICRO) \div 100 + (2 * s + 5) \div 10

\* e^r for 0 <= r < ln 2 by the Taylor series in Horner form
ExpFrac(r) ==
    SCALE + Mul(r, SCALE + Mul(r, SCALE + Mul(r, SCALE + Mul(r, SCALE
        + Mul(r, SCALE + r \div 6) \div 5) \div 4) \div 3) \div 2)

\* beyond +-ExpSat the fixed-point value of e^x no longer changes any result
ExpSat == 10 * SCALE

\* e^x in fixed point, x = n ln 2 + r
Exp(x) ==
    IF x <= -ExpSat THEN 0
    ELSE LET y == Min(x, ExpSat)
             n == y \div LN2
             r == y % LN2
         IN IF n >= 0 THEN ExpFrac(r) * 2^n ELSE ExpFrac(r) \div 2^(-n)

\* base ** e for a fixed-point base in (0, 1]
Pow(base, e) == Exp(Mul(e, Ln(base) - Ln(SCALE)))

\* variant: a non-positive argument is silently read as ln = 0
MathLogSilent(x) ==
    IF x <= 0 THEN [raised |-> FALSE, value |-> 0]
    ELSE [raised |-> FALSE, value |-> Ln(x)]

\* math.log: raises ValueError("math domain error") for x <= 0
MathLog(x) ==
    IF x <= 0 THEN [raised |-> TRUE, value |-> 0]
    ELSE [raised |-> FALSE, value |-> Ln(x)]

\* math.exp raises OverflowError("math range error") above ln(DBL_MAX)
EXP_MAX_ARG == 7097827

MathExpRaises(x) == x > EXP_MAX_ARG

----------------------------------------------------------------------------
(* Strings                                                                 *)

UpperChars == << "A", "B", "C", "D", "E", "F", "G", "H", "I", "J", "K", "L",
                 "M", "N", "O", "P", "Q", "R", "S", "T", "U", "V", "W", "X",
                 "Y", "Z" >>

LowerChars == << "a", "b", "c", "d", "e", "f", "g", "h", "i", "j", "k", "l",
                 "m", "n", "o", "p", "q", "r", "s", "t", "u", "v", "w", "x",
                 "y", "z" >>

LowerChar(ch) ==
    IF \E i \in 1..Len(UpperChars) : UpperChars[i] = ch
    THEN LowerChars[CHOOSE i \in 1..Len(UpperChars) : UpperChars[i] = ch]
    ELSE ch

\* str.lower()
lower(s) == [i \in 1..Len(s) |-> LowerChar(s[i])]

RECURSIVE lstrip(_)
lstrip(s) == IF Len(s) > 0 /\ s[1] = " " THEN lstrip(Tail(s)) ELSE s

RECURSIVE rstrip(_)
rstrip(s) ==
    IF Len(s) > 0 /\ s[Len(s)] = " " THEN rstrip(SubSeq(s, 1, Len(s) - 1))
    ELSE s

\* str.strip()
strip(s) == rstrip(lstrip(s))

\* str.startswith(prefix)
startswith(s, prefix) ==
    Len(s) >= Len(prefix) /\ SubSeq(s, 1, Len(prefix)) = prefix

male == << "m", "a", "l", "e" >>
female == << "f", "e", "m", "a", "l", "e" >>
white == << "w", "h", "i", "t", "e" >>
black == << "b", "l", "a", "c", "k" >>
other == << "o", "t", "h", "e", "r" >>

RaceMsg == "race must be 'white', 'black', or 'other'"
SexMsg == "sex must be 'male' or 'female'"
DomainMsg == "math domain error"
RangeMsg == "math range error"

----------------------------------------------------------------------------
(* Coefficient sets of the 2013 Pooled Cohort Equations, in fixed point    *)

FemaleWhite ==
    [CAge |-> -297990, CSqAge |-> 48840,
     CTotalChol |-> 135400, CAgeTotalChol |-> -31140,
     CHDLChol |-> -135780, CAgeHDLChol |-> 31490,
     COnHypertensionMeds |-> 20190, CAgeOnHypertensionMeds |-> 0,
     COffHypertensionMeds |-> 19570, CAgeOffHypertensionMeds |-> 0,
     CSmoker |-> 75740, CAgeSmoker |-> -16650,
     CDiabetes |-> 6610,
     S10 |-> 9665, MeanTerms |-> -291800]

FemaleBlack ==
    [CAge |-> 171140, CSqAge |-> 0,
     CTotalChol |-> 9400, CAgeTotalChol |-> 0,
     CHDLChol |-> -189200, CAgeHDLChol |-> 44750,
     COnHypertensionMeds |-> 292910, CAgeOnHypertensionMeds |-> -64320,
     COffHypertensionMeds |-> 278200, CAgeOffHypertensionMeds |-> -60870,
     CSmoker |-> 6910, CAgeSmoker |-> 0,
     CDiabetes |-> 8740,
     S10 |-> 9533, MeanTerms |-> 866100]

MaleWhite ==
    [CAge |-> 123440, CSqAge |-> 0,
     CTotalChol |-> 118530, CAgeTotalChol |-> -26640,
     CHDLChol |-> -79900, CAgeHDLChol |-> 17690,
     COnHypertensionMeds |-> 17970, CAgeOnHypertensionMeds |-> 0,
     COffHypertensionMeds |-> 17640, CAgeOffHypertensionMeds |-> 0,
     CSmoker |-> 78370, CAgeSmoker |-> -17950,
     CDiabetes |-> 6580,
     S10 |-> 9144, MeanTerms |-> 611800]

MaleBlack ==
    [CAge |-> 24690, CSqAge |-> 0,
     CTotalChol |-> 3020, CAgeTotalChol |-> 0,
     CHDLChol |-> -3070, CAgeHDLChol |-> 0,
     COnHypertensionMeds |-> 19160, CAgeOnHypertensionMeds |-> 0,
     COffHypertensionMeds |-> 18090, CAgeOffHypertensionMeds |-> 0,
     CSmoker |-> 5490, CAgeSmoker |-> 0,
     CDiabetes |-> 6450,
     S10 |-> 8954, MeanTerms |-> 195400]

\* no branch of the if/elif chain matched
NoCoefficients == [unmapped |-> TRUE]

----------------------------------------------------------------------------
(* ascvd_10y_risk_pce                                                      *)

\* variant: the race check is missing
RaceAcceptedAny(race) == TRUE

\* race = race.lower().strip(), checked against the three accepted values
RaceAccepted(race) == race \in {white, black, other}

\* variant: "other" is not aliased
ResolveRaceNoAlias(race) == race

\* if race == "other": race = "white"
ResolveRace(race) == IF race = other THEN white ELSE race

\* variant: the second branch repeats the first branch's race
SelectCoefficientsRepeatedBranch(sex, race) ==
    IF sex = female /\ race = white THEN FemaleWhite
    ELSE IF sex = female /\ race = white THEN FemaleBlack
    ELSE IF sex = male /\ race = white THEN MaleWhite
    ELSE IF sex = male /\ race = black THEN MaleBlack
    ELSE NoCoefficients

\* the if/elif chain on (sex, race); the final else raises
SelectCoefficients(sex, race) ==
    IF sex = female /\ race = white THEN FemaleWhite
    ELSE IF sex = female /\ race = black THEN FemaleBlack
    ELSE IF sex = male /\ race = white THEN MaleWhite
    ELSE IF sex = male /\ race = black THEN MaleBlack
    ELSE NoCoefficients

\* the six core terms
CoreTerms(c, ln_age, ln_tc, ln_hdl) ==
    Mul(c.CAge, ln_age)
        + Mul(c.CSqAge, Mul(ln_age, ln_age))
        + Mul(c.CTotalChol, ln_tc)
        + Mul(Mul(c.CAgeTotalChol, ln_age), ln_tc)
        + Mul(c.CHDLChol, ln_hdl)
        + Mul(Mul(c.CAgeHDLChol, ln_age), ln_hdl)

\* variant: the off-treatment pair is added unconditionally
SbpTermsBoth(c, ln_age, ln_sbp, on_treatment) ==
    (IF on_treatment
     THEN Mul(c.COnHypertensionMeds, ln_sbp)
              + Mul(Mul(c.CAgeOnHypertensionMeds, ln_age), ln_sbp)
     ELSE 0)
        + Mul(c.COffHypertensionMeds, ln_sbp)
        + Mul(Mul(c.CAgeOffHypertensionMeds, ln_age), ln_sbp)

\* treated vs untreated systolic pressure
SbpTerms(c, ln_age, ln_sbp, on_treatment) ==
    IF on_treatment
    THEN Mul(c.COnHypertensionMeds, ln_sbp)
             + Mul(Mul(c.CAgeOnHypertensionMeds, ln_age), ln_sbp)
    ELSE Mul(c.COffHypertensionMeds, ln_sbp)
             + Mul(Mul(c.CAgeOffHypertensionMeds, ln_age), ln_sbp)

\* variant: the smoker terms are subtracted
AddSmokerSubtracts(terms, c, ln_age, smoker) ==
    IF smoker THEN terms - (c.CSmoker + Mul(c.CAgeSmoker, ln_age)) ELSE terms

\* if smoker: terms += CSmoker + CAgeSmoker * ln_age
AddSmoker(terms, c, ln_age, smoker) ==
    IF smoker THEN terms + (c.CSmoker + Mul(c.CAgeSmoker, ln_age)) ELSE terms

\* if diabetes: terms += CDiabetes
AddDiabetes(terms, c, diabetes) ==
    IF diabetes THEN terms + c.CDiabetes ELSE terms

\* the linear predictor, accumulated in the order of the code
LinearPredictor(c, ln_age, ln_tc, ln_hdl, ln_sbp, on_treatment, smoker, diabetes) ==
    AddDiabetes(
        AddSmoker(CoreTerms(c, ln_age, ln_tc, ln_hdl)
                      + SbpTerms(c, ln_age, ln_sbp, on_treatment),
                  c, ln_age, smoker),
        c, diabetes)

\* variant: the survival term is added instead of subtracted
RiskFractionPlus(c, terms) == SCALE + Pow(c.S10, Exp(terms - c.MeanTerms))

\* risk_fraction = 1.0 - S10 ** exp(terms - MeanTerms)
RiskFraction(c, terms) == SCALE - Pow(c.S10, Exp(terms - c.MeanTerms))

\* return risk_fraction * 100.0
Percent(risk_fraction) == risk_fraction * 100

\* outcome of a call: the value returned or the exception raised, with the
\* locals c and terms as they stood when the call ended
Raise(exc, msg, c, terms) ==
    [returned |-> FALSE, value |-> 0, exc |-> exc, msg |-> msg,
     c |-> c, terms |-> terms]

Return(value, c, terms) ==
    [returned |-> TRUE, value |-> value, exc |-> "", msg |-> "",
     c |-> c, terms |-> terms]

ascvd_10y_risk_pce(age, sex0, race0, tc, hdl, sbp, on_treatment, smoker, diabetes) ==
    LET sex == strip(lower(sex0))
        race1 == strip(lower(race0))
    IN  IF ~RaceAccepted(race1)
        THEN Raise("ValueError", RaceMsg, NoCoefficients, 0)
        ELSE
        LET race == ResolveRace(race1)
            c == SelectCoefficients(sex, race)
        IN  IF c = NoCoefficients
            THEN Raise("ValueError", SexMsg, NoCoefficients, 0)
            ELSE IF MathLog(age).raised \/ MathLog(tc).raised
                     \/ MathLog(hdl).raised \/ MathLog(sbp).raised
            THEN Raise("ValueError", DomainMsg, c, 0)
            ELSE
            LET ln_age == MathLog(age).value
                ln_tc == MathLog(tc).value
                ln_hdl == MathLog(hdl).value
                ln_sbp == MathLog(sbp).value
                terms == LinearPredictor(c, ln_age, ln_tc, ln_hdl, ln_sbp,
                                         on_treatment, smoker, diabetes)
            IN  IF MathExpRaises(terms - c.MeanTerms)
                THEN Raise("OverflowError", RangeMsg, c, terms)
                ELSE Return(Percent(RiskFraction(c, terms)), c, terms)

\* the call on a record of arguments
Compute(a) ==
    ascvd_10y_risk_pce(a.age, a.sex, a.race, a.tc, a.hdl, a.sbp,
                       a.on_treatment, a.smoker, a.diabetes)

----------------------------------------------------------------------------
(* The form handler                                                        *)

\* st.number_input ranges
AGE_MIN == 20
AGE_MAX == 90
TC_MIN == 100
TC_MAX == 400
HDL_MIN == 10
HDL_MAX == 150
SBP_MIN == 80
SBP_MAX == 250

\* st.radio / st.selectbox options
OptMale == << "M", "a", "l", "e" >>
OptFemale == << "F", "e", "m", "a", "l", "e" >>
OptWhiteOther == << "W", "h", "i", "t", "e", " ", "/", " ", "O", "t", "h", "e", "r" >>
OptBlack == << "B", "l", "a", "c", "k" >>

\* sex_arg = "male" if sex.lower().startswith("m") else "female"
SexArg(sex) == IF startswith(lower(sex), << "m" >>) THEN male ELSE female

\* race_arg = "black" if race.lower().startswith("black") else "white"
RaceArg(race) == IF startswith(lower(race), black) THEN black ELSE white

\* variant: the lower edge is inclusive
AgeWarningInclusive(age) == age <= 40 \/ age > 79

\* if age < 40 or age > 79: st.warning(...)
AgeWarning(age) == age < 40 \/ age > 79

\* risk = max(0.0, min(risk, 100.0))
Clip(risk) == Max(0, Min(risk, 100 * SCALE))

\* variant: the comparisons are inclusive
CategoryInclusive(risk) ==
    IF risk <= 5 * SCALE THEN "Low risk (<5%)"
    ELSE IF risk <= (75 * SCALE) \div 10 THEN "Borderline risk (5-7.4%)"
    ELSE IF risk <= 20 * SCALE THEN "Intermediate risk (7.5-19.9%)"
    ELSE "High risk (>=20%)"

\* the category chain; the labels are the code's, in ASCII
Category(risk) ==
    IF risk < 5 * SCALE THEN "Low risk (<5%)"
    ELSE IF risk < (75 * SCALE) \div 10 THEN "Borderline risk (5-7.4%)"
    ELSE IF risk < 20 * SCALE THEN "Intermediate risk (7.5-19.9%)"
    ELSE "High risk (>=20%)"

Color(risk) ==
    IF risk < 5 * SCALE THEN "green"
    ELSE IF risk < (75 * SCALE) \div 10 THEN "orange"
    ELSE IF risk < 20 * SCALE THEN "orange"
    ELSE "red"

----------------------------------------------------------------------------
(* Inputs explored                                                         *)

\* the largest age passed to a direct call
ExtremeAge == 10000000

unknown == << "u", "n", "k", "n", "o", "w", "n" >>
asian == << "a", "s", "i", "a", "n" >>

CallAges == {0, 55, 79, 95, 200, ExtremeAge}
CallSexes == {male, female, << " ", "M", "a", "l", "e" >>, unknown}
CallRaces == {white, black, other, << "O", "t", "h", "e", "r", " " >>, asian}
CallTcs == {-5, 213}
CallHdls == {0, 50}
CallSbps == {0, 120}

CallArgs ==
    [age : CallAges, sex : CallSexes, race : CallRaces, tc : CallTcs,
     hdl : CallHdls, sbp : CallSbps,
     on_treatment : BOOLEAN, smoker : BOOLEAN, diabetes : BOOLEAN]

WidgetAges == {a \in {19, 20, 39, 40, 55, 79, 80, 90, 91} : AGE_MIN <= a /\ a <= AGE_MAX}
WidgetTcs == {v \in {99, 100, 213, 400, 401} : TC_MIN <= v /\ v <= TC_MAX}
WidgetHdls == {v \in {9, 10, 50, 151} : HDL_MIN <= v /\ v <= HDL_MAX}
WidgetSbps == {v \in {79, 120, 250, 251} : SBP_MIN <= v /\ v <= SBP_MAX}

WidgetValues ==
    [age : WidgetAges, sex : {OptMale, OptFemale},
     race : {OptWhiteOther, OptBlack}, tc : WidgetTcs,
     hdl : WidgetHdls, sbp : WidgetSbps,
     on_treatment : BOOLEAN, smoker : BOOLEAN, diabetes : BOOLEAN]

\* widget defaults
DefaultWidgets ==
    [age |-> 55, sex |-> OptMale, race |-> OptWhiteOther, tc |-> 213,
     hdl |-> 50, sbp |-> 120,
     on_treatment |-> FALSE, smoker |-> FALSE, diabetes |-> FALSE]

NoArgs ==
    [age |-> 0, sex |-> << >>, race |-> << >>, tc |-> 0, hdl |-> 0, sbp |-> 0,
     on_treatment |-> FALSE, smoker |-> FALSE, diabetes |-> FALSE]

NoResult == Raise("", "", NoCoefficients, 0)

----------------------------------------------------------------------------
(* State                                                                   *)

VARIABLES
    pc,         \* "ready", "called", "rendered"; "clipped", "categorized"
    args,       \* the arguments of the last call of ascvd_10y_risk_pce
    result,     \* its outcome
    widgets,    \* the submitted form values
    warning,    \* the age advisory was shown
    risk,       \* the handler's clipped risk
    category,   \* the handler's category label
    color,      \* and its colour
    error       \* the st.error text, << >> when none

vars == << pc, args, result, widgets, warning, risk, category, color, error >>

Init ==
    /\ pc = "ready"
    /\ args = NoArgs
    /\ result = NoResult
    /\ widgets = DefaultWidgets
    /\ warning = FALSE
    /\ risk = 0
    /\ category = ""
    /\ color = ""
    /\ error = << >>

\* a direct call of ascvd_10y_risk_pce
Call ==
    /\ pc = "ready"
    /\ \E a \in CallArgs :
        /\ args' = a
        /\ result' = Compute(a)
    /\ pc' = "called"
    /\ UNCHANGED << widgets, warning, risk, category, color, error >>

\* the form is submitted: the whole "if submitted:" block
Submit ==
    /\ pc = "ready"
    /\ \E w \in WidgetValues :
        LET a == [w EXCEPT !.sex = SexArg(w.sex), !.race = RaceArg(w.race)]
            r == Compute(a)
        IN  /\ widgets' = w
            /\ warning' = AgeWarning(w.age)
            /\ args' = a
            /\ result' = r
            /\ IF r.returned
               THEN /\ risk' = Clip(r.value)
                    /\ category' = Category(Clip(r.value))
                    /\ color' = Color(Clip(r.value))
                    /\ error' = << >>
               ELSE /\ error' = << "Error computing risk: ", r.msg >>
                    /\ UNCHANGED << risk, category, color >>
    /\ pc' = "rendered"

\* Streamlit reruns the script from the top
Rerun ==
    /\ pc \in {"called", "rendered"}
    /\ pc' = "ready"
    /\ args' = NoArgs
    /\ result' = NoResult
    /\ widgets' = DefaultWidgets
    /\ warning' = FALSE
    /\ risk' = 0
    /\ category' = ""
    /\ color' = ""
    /\ error' = << >>

Next == Call \/ Submit \/ Rerun

Spec == Init /\ [][Next]_vars

----------------------------------------------------------------------------
(* The category chain on its own, over a grid of clipped percentages       *)

\* grid points per percentage point
CatGrid == 10

CatRisks ==
    {(k * SCALE) \div CatGrid : k \in 0..(100 * CatGrid)}
        \cup {b + d : b \in {5 * SCALE, (75 * SCALE) \div 10, 20 * SCALE},
                      d \in {-1, 0, 1}}

CatInit ==
    /\ pc = "clipped"
    /\ risk \in CatRisks
    /\ args = NoArgs
    /\ result = NoResult
    /\ widgets = DefaultWidgets
    /\ warning = FALSE
    /\ category = ""
    /\ color = ""
    /\ error = << >>

Categorize ==
    /\ pc = "clipped"
    /\ pc' = "categorized"
    /\ category' = Category(risk)
    /\ color' = Color(risk)
    /\ UNCHANGED << args, result, widgets, warning, risk, error >>

CatNext == Categorize

CatSpec == CatInit /\ [][CatNext]_vars

----------------------------------------------------------------------------
(* Properties                                                              *)

Called == pc \in {"called", "rendered"}

NormSex == strip(lower(args.sex))
NormRace == strip(lower(args.race))

SexValid == NormSex \in {male, female}
RaceValid == NormRace \in {white, black, other}

LogInputsPositive ==
    args.age > 0 /\ args.tc > 0 /\ args.hdl > 0 /\ args.sbp > 0

CoefficientSets == {FemaleWhite, FemaleBlack, MaleWhite, MaleBlack}

\* C1: a call whose sex (lower-cased, stripped) is not male or female, or
\* whose race is not white, black or other, raises ValueError with a message
\* naming a field that is indeed invalid, and returns no value.
C1_InvalidSexRaceRejected ==
    (Called /\ (~SexValid \/ ~RaceValid)) =>
        /\ ~result.returned
        /\ result.exc = "ValueError"
        /\ \/ result.msg = RaceMsg /\ ~RaceValid
           \/ result.msg = SexMsg /\ ~SexValid

C1_Witness ==
    /\ pc = "called"
    /\ NormSex = unknown
    /\ RaceValid
    /\ result.exc = "ValueError"
    /\ result.msg = SexMsg

\* C2: a call with age, total cholesterol, HDL cholesterol or systolic
\* pressure <= 0 raises ValueError and returns no value.
C2_NonPositiveRejected ==
    (Called /\ ~LogInputsPositive) =>
        /\ ~result.returned
        /\ result.exc = "ValueError"

C2_Witness ==
    /\ pc = "called"
    /\ SexValid /\ RaceValid
    /\ args.age > 0 /\ args.tc <= 0
    /\ ~result.returned
    /\ result.msg = DomainMsg

\* C3: every risk produced lies in [0, 100]: the value a call returns, and
\* the clipped risk the handler shows.
C3_RiskWithinRange ==
    /\ (Called /\ result.returned) =>
           (0 <= result.value /\ result.value <= 100 * SCALE)
    /\ (pc = "rendered" /\ result.returned) =>
           (0 <= risk /\ risk <= 100 * SCALE)

C3_Witness ==
    /\ pc = "called"
    /\ args.age = 200
    /\ result.returned
    /\ result.value = 100 * SCALE

\* C4: a call with valid sex and race selects exactly one of the four
\* coefficient sets, the one keyed by (sex, race with other read as white),
\* and raises no sex/race error.
C4_OneCoefficientSet ==
    (Called /\ SexValid /\ RaceValid) =>
        LET race == IF NormRace = other THEN white ELSE NormRace
        IN  /\ Cardinality({s \in CoefficientSets : s = result.c}) = 1
            /\ (NormSex = female /\ race = white) => result.c = FemaleWhite
            /\ (NormSex = female /\ race = black) => result.c = FemaleBlack
            /\ (NormSex = male /\ race = white) => result.c = MaleWhite
            /\ (NormSex = male /\ race = black) => result.c = MaleBlack
            /\ result.msg \notin {RaceMsg, SexMsg}

C4_Witness ==
    /\ pc = "called"
    /\ NormSex = female
    /\ NormRace = black
    /\ result.c = FemaleBlack
    /\ result.returned

\* C5: a call with race "other" has the outcome of the same call with race
\* "white": the same value, or the same exception.
C5_OtherIsWhite ==
    (Called /\ NormRace = other) =>
        result = Compute([args EXCEPT !.race = white])

C5_Witness ==
    /\ pc = "called"
    /\ NormRace = other
    /\ result.returned
    /\ result.c = MaleWhite
    /\ result.value > 0

LowLabel == "Low risk (<5%)"
BorderlineLabel == "Borderline risk (5-7.4%)"
IntermediateLabel == "Intermediate risk (7.5-19.9%)"
HighLabel == "High risk (>=20%)"

\* C6: a clipped percentage r gets exactly one category: low when r < 5,
\* borderline when 5 <= r < 7.5, intermediate when 7.5 <= r < 20, high when
\* r >= 20.
C6_CategoryTable ==
    pc = "categorized" =>
        /\ category \in {LowLabel, BorderlineLabel, IntermediateLabel, HighLabel}
        /\ category = LowLabel <=> risk < 5 * SCALE
        /\ category = BorderlineLabel <=>
               (5 * SCALE <= risk /\ 2 * risk < 15 * SCALE)
        /\ category = IntermediateLabel <=>
               (15 * SCALE <= 2 * risk /\ risk < 20 * SCALE)
        /\ category = HighLabel <=> risk >= 20 * SCALE

C6_Witness ==
    /\ pc = "categorized"
    /\ 2 * risk = 15 * SCALE
    /\ category = IntermediateLabel

\* the smoker contribution of the selected set at the call's age
SmokerContribution ==
    result.c.CSmoker + Mul(result.c.CAgeSmoker, Ln(args.age))

NonSmokerResult == Compute([args EXCEPT !.smoker = FALSE])

\* C7 as stated: with CSmoker >= 0 and a positive age, the risk of the
\* smoker call is never below the risk of the same call with smoker false.
C7_SmokerNeverDecreases ==
    (Called /\ args.smoker /\ result.returned /\ result.c.CSmoker >= 0
        /\ args.age > 0) =>
        (NonSmokerResult.returned => NonSmokerResult.value <= result.value)

\* C7 amended: when the smoker call returns and the smoker contribution
\* CSmoker + CAgeSmoker * ln(age) is non-negative, the same call with smoker
\* false returns too, with a risk that is not greater.
C7_SmokerNeverDecreasesWhenContributionNonNegative ==
    (Called /\ args.smoker /\ result.returned /\ SmokerContribution >= 0) =>
        /\ NonSmokerResult.returned
        /\ NonSmokerResult.value <= result.value

C7_Witness ==
    /\ pc = "called"
    /\ args.smoker
    /\ result.returned
    /\ SmokerContribution > 0
    /\ NonSmokerResult.value < result.value

\* C8: after a submission the age advisory is shown exactly when age < 40
\* or age > 79, and the risk is computed and shown in that case too.
C8_AgeAdvisory ==
    pc = "rendered" =>
        /\ warning <=> (widgets.age < 40 \/ widgets.age > 79)
        /\ (widgets.age < 40 \/ widgets.age > 79) =>
               /\ result.returned
               /\ error = << >>
               /\ risk = Clip(result.value)
               /\ category # ""

C8_Witness ==
    /\ pc = "rendered"
    /\ widgets.age = AGE_MAX
    /\ warning
    /\ result.returned
    /\ error = << >>

\* C9: a call with valid sex and race and strictly positive age, total
\* cholesterol, HDL cholesterol and systolic pressure returns a risk and
\* raises nothing.
C9_ValidPositiveInputNeverFails ==
    (Called /\ SexValid /\ RaceValid /\ LogInputsPositive) =>
        (result.returned /\ result.exc = "")

Indicator(b) == IF b THEN 1 ELSE 0

\* C10: in a call that returns, the linear predictor is the six core terms
\* plus exactly one systolic-pressure pair (on-treatment iff on_treatment),
\* plus the smoker terms iff smoker, plus CDiabetes iff diabetes; smoker and
\* diabetes add the same amount whatever the other flags are.
C10_LinearPredictorShape ==
    (Called /\ result.returned) =>
        LET c == result.c
            ln_age == Ln(args.age)
            ln_sbp == Ln(args.sbp)
            core == CoreTerms(c, ln_age, Ln(args.tc), Ln(args.hdl))
            onPair == Mul(c.COnHypertensionMeds, ln_sbp)
                          + Mul(Mul(c.CAgeOnHypertensionMeds, ln_age), ln_sbp)
            offPair == Mul(c.COffHypertensionMeds, ln_sbp)
                           + Mul(Mul(c.CAgeOffHypertensionMeds, ln_age), ln_sbp)
            smoke == c.CSmoker + Mul(c.CAgeSmoker, ln_age)
            plain == Compute([args EXCEPT !.smoker = FALSE,
                                          !.diabetes = FALSE]).terms
        IN  /\ result.terms =
                   core + Indicator(args.on_treatment) * onPair
                        + Indicator(~args.on_treatment) * offPair
                        + Indicator(args.smoker) * smoke
                        + Indicator(args.diabetes) * c.CDiabetes
            /\ result.terms - plain =
                   Indicator(args.smoker) * smoke
                       + Indicator(args.diabetes) * c.CDiabetes

C10_Witness ==
    /\ pc = "called"
    /\ result.returned
    /\ result.c = FemaleBlack
    /\ args.on_treatment /\ args.smoker /\ args.diabetes

====
